---- MODULE Spec2Model ----
(***************************************************************************)
(* Model of src/scrape_host.py: the host scraper's pipeline (main), its    *)
(* retry wrapper, credential cache, host-profile cache and progress log.   *)
(*                                                                         *)
(* One process runs main() at a time; the progress log (processed_ids.txt) *)
(* and the output table (host_listings.csv) survive from one run to the    *)
(* next, everything else is process memory.  The pyairbnb calls are the    *)
(* environment: each call nondeterministically returns or raises.          *)
(*                                                                         *)
(* Listing identifiers are decimal strings (str() of the upstream's ids),  *)
(* written here as the numbers 1..NumRooms; a line f"{room_id}\n" of the   *)
(* log read back by line.strip() is that decimal string again.             *)
(*                                                                         *)
(* Specifications: Spec (the pipeline: runs, kills, failing calls and      *)
(* saves), SpecHosts (the host-profile calls), SpecRerun (complete runs    *)
(* over well-formed data), SpecEnum (the shapes of the enumerated items),  *)
(* SpecParse (the resolver on its own), SpecLive (one run under fairness). *)
(***************************************************************************)
EXTENDS Integers, Sequences, FiniteSets, TLC

\* ------------------------------------------------------------------ bounds
NumRooms == 2
MaxRuns == 2

\* ------------------------------------------------------- program constants
\* retry_on_failure(max_retries=3, delay=2) as applied to get_listing_details
max_retries == 3
delay == 2
\* re.fullmatch(r"\d{5,25}", s)
MinIdLen == 5
MaxIdLen == 25

RoomIds == 1..NumRooms

\* host identifiers found in a detail payload; "" is str(host_data.get("id", ""))
\* of a payload without host id, or a payload whose host is no dict
HostIds == {"", "h1", "h2"}

Range(s) == {s[i] : i \in DOMAIN s}

\* ------------------------------------------------------- IdentityResolver
\* A host reference is a sequence of tokens: a digit, a blank, a path
\* separator, a path word, "?" (start of the query), "https://h" (scheme and
\* network location) or "http://[" (a network location urlparse rejects).
Digits == {"0", "1", "2", "3", "4", "5", "6", "7", "8", "9"}

RECURSIVE lstrip(_)
lstrip(s) == IF s # <<>> /\ Head(s) = " " THEN lstrip(Tail(s)) ELSE s

RECURSIVE rstrip(_)
rstrip(s) ==
    IF s # <<>> /\ s[Len(s)] = " " THEN rstrip(SubSeq(s, 1, Len(s) - 1)) ELSE s

strip(s) == lstrip(rstrip(s))

IsDigits(s) == \A i \in DOMAIN s : s[i] \in Digits

fullmatch_digits(s) == IsDigits(s)

\* re.fullmatch(r"\d{5,25}", s)
fullmatch_id(s) == IsDigits(s) /\ Len(s) >= MinIdLen /\ Len(s) <= MaxIdLen

\* urlparse(s) raises ValueError
urlparse_raises(s) == s # <<>> /\ Head(s) = "http://["

\* urlparse(s).path: what follows scheme and network location, up to the query
urlparse_path(s) ==
    LET rest == IF s # <<>> /\ Head(s) = "https://h" THEN Tail(s) ELSE s
        cut == {i \in DOMAIN rest : rest[i] = "?"}
        stop == IF cut = {} THEN Len(rest) + 1
                ELSE CHOOSE i \in cut : \A j \in cut : i <= j
    IN  SubSeq(rest, 1, stop - 1)

match_starts_show(path) ==
    {i \in DOMAIN path :
        /\ i + 5 <= Len(path)
        /\ path[i] = "/" /\ path[i + 1] = "users" /\ path[i + 2] = "/"
        /\ path[i + 3] = "show"
        /\ path[i + 4] = "/"
        /\ path[i + 5] \in Digits}

\* the positions where /users/(?:show|profile)/(\d+) matches in path
match_starts(path) ==
    {i \in DOMAIN path :
        /\ i + 5 <= Len(path)
        /\ path[i] = "/" /\ path[i + 1] = "users" /\ path[i + 2] = "/"
        /\ path[i + 3] \in {"show", "profile"}
        /\ path[i + 4] = "/"
        /\ path[i + 5] \in Digits}

\* the greedy digit run (\d+) starting at position k
RECURSIVE digit_run(_, _)
digit_run(path, k) ==
    IF k <= Len(path) /\ path[k] \in Digits
    THEN <<path[k]>> \o digit_run(path, k + 1)
    ELSE <<>>

\* parse_host_id_from_url; <<>> is the empty string
parse_host_id_from_url(host_url) ==
    IF host_url = <<>> THEN <<>>
    ELSE LET s == strip(host_url) IN
         IF fullmatch_id(s) THEN s
         ELSE IF urlparse_raises(s) THEN <<>>
         ELSE LET path == urlparse_path(s)
                  ms == match_starts(path)
              IN  IF ms = {} THEN <<>>
                  ELSE LET i == CHOOSE m \in ms : \A j \in ms : m <= j
                       IN  digit_run(path, i + 5)

\* ------------------------------------------------------------ environment
\* sequences over S of length at most n
SeqsUpTo(S, n) == UNION {[1..k -> S] : k \in 0..n}

\* An item of the list pyairbnb.get_listings_from_user returns.  A dict item
\* has the fields room_id and id (0: absent or falsy) and listing: "absent",
\* "null" (None), "nodict" (a value without .get), or "dict" with its id in lid
\* (0: absent or falsy).  A scalar item has the text str(it).
ListingKinds == {"absent", "null", "nodict", "dict"}

DictItem(a, b, l, c) ==
    [kind |-> "dict", room_id |-> a, id |-> b, listing |-> l, lid |-> c,
     text |-> <<>>]

ScalarItem(s) ==
    [kind |-> "scalar", room_id |-> 0, id |-> 0, listing |-> "absent", lid |-> 0,
     text |-> s]

\* the item {"room_id": i}
RoomItem(i) == DictItem(i, 0, "absent", 0)

PlainItems == {RoomItem(i) : i \in RoomIds}

\* str(i) of a listing identifier
DecimalDigits == <<"1", "2", "3", "4", "5", "6", "7", "8", "9">>
str(i) == <<DecimalDigits[i]>>

DictItems ==
    {DictItem(a, b, l, 0) : a, b \in {0} \cup RoomIds, l \in ListingKinds}
        \cup {DictItem(a, b, "dict", c) : a, b \in {0} \cup RoomIds, c \in RoomIds}

ScalarItems ==
    {ScalarItem(s) : s \in {<<>>, <<"x">>, <<" ">>}}
        \cup {ScalarItem(str(i)) : i \in RoomIds}
        \cup {ScalarItem(<<" ">> \o str(i) \o <<" ">>) : i \in RoomIds}

\* what pyairbnb.get_listings_from_user(host_id, ...) can hold for the scraped
\* host in the pipeline: a list of items, each carrying one listing identifier
\* (duplicates allowed)
UpstreamListings == SeqsUpTo(PlainItems, NumRooms)

\* The environment of the enumeration specification (SpecEnum): lists of plain
\* items long enough to repeat an identifier after another one, and lists with
\* one item of any shape before, after or between plain items.
EnumListings ==
    SeqsUpTo(PlainItems, NumRooms + 1)
        \cup {pre \o <<it>> \o post :
                 pre \in SeqsUpTo(PlainItems, 1), post \in SeqsUpTo(PlainItems, 1),
                 it \in DictItems \cup ScalarItems}

\* one call of pyairbnb.get_listings_from_user in get_room_ids_from_host:
\* it raises, returns None, or returns the upstream's list
EnumOutcomes == {"raise", "none", "list"}

\* one call of pyairbnb.get_api_key
AcquireOutcomes == {"raise", "ok"}

\* what one call of pyairbnb.get_details returns: None or an empty dict
\* ("empty"), a dict whose host id is host ("dict"), or a truthy value that is
\* no dict ("nondict")
NoDetails == [kind |-> "empty", host |-> ""]
DetailPayloads ==
    {NoDetails, [kind |-> "nondict", host |-> ""]}
        \cup {[kind |-> "dict", host |-> h] : h \in HostIds}

\* one call of pyairbnb.get_host_details: it raises; returns an error-shaped,
\* empty or non-dict payload ("errors"); returns a well-formed payload ("ok");
\* or returns a dict whose "presentation" is no dict, so that reading it raises
\* after the rating was read ("malformed")
HostDetailOutcomes == {"raise", "errors", "ok", "malformed"}

\* one call of pyairbnb.get_listings_from_user in fetch_host_profile_fields:
\* -1 when it raises, else the number of items returned (0: None or empty)
HostListingsOutcomes == {-1, 0, 1, 2}

\* the values of the HOST_URL environment variable the runs are started with
HostUrlInputs ==
    { <<>>,
      <<" ">>,
      <<"x">>,
      <<"http://[", "/", "users", "/", "show", "/", "7">>,
      <<" ", "https://h", "/", "users", "/", "show", "/", "4", "2", "?", "x">> }

\* The inputs of the resolver specification (SpecParse): host references with
\* a digit run of every length from 0 to one more than the longest accepted
\* identifier, raw (padded or not, or followed by a letter) and as the last
\* part of a path /users/<word>/, after nothing, a network location or a
\* rejected one, before nothing, a further path segment or a query; and a
\* reference whose query holds the pattern.
DigitRun(n) == [i \in 1..n |-> IF i % 2 = 1 THEN "4" ELSE "2"]

DigitRuns == {DigitRun(n) : n \in 0..(MaxIdLen + 1)}

RawReferences ==
    {l \o d \o r : l \in {<<>>, <<" ">>}, d \in DigitRuns,
                   r \in {<<>>, <<" ">>, <<"x">>}}

UrlReferences ==
    {l \o h \o pre \o <<"/", "users", "/", w, "/">> \o d \o post :
        l \in {<<>>, <<" ">>},
        h \in {<<>>, <<"https://h">>, <<"http://[">>},
        pre \in {<<>>, <<"/", "x">>},
        w \in {"show", "profile", "edit"},
        d \in DigitRuns,
        post \in {<<>>, <<"/", "x">>, <<"?", "x">>}}

HostReferences ==
    RawReferences \cup UrlReferences
        \cup {<<"https://h", "/", "x", "?", "/", "users", "/", "show", "/", "4", "2">>}

\* The environment of the pipeline specification (Spec): every outcome of the
\* listing calls, the payloads naming one host whose detail call raises (the
\* outcomes of the host calls are the subject of SpecHosts).
PipelinePayloads ==
    {NoDetails, [kind |-> "nondict", host |-> ""], [kind |-> "dict", host |-> "h1"]}
PipelineHostDetail == {"raise"}
PipelineHostListings == {-1}

\* The environment of the host-profile specification (SpecHosts): one run over
\* the listings 1..NumRooms, every detail fetch returning a payload, the
\* payloads naming every host, every outcome of the host calls.
HostsUrlInputs == {<<"https://h", "/", "users", "/", "profile", "/", "4", "2">>}
HostsUpstream == {[i \in 1..NumRooms |-> RoomItem(i)]}
HostsPayloads == {[kind |-> "dict", host |-> h] : h \in HostIds}

\* The environment of the re-run specification (SpecRerun): the upstream holds
\* a well-formed payload for every listing.
RerunPayloads == {[kind |-> "dict", host |-> "h1"]}

\* -------------------------------------------------------------------- state
VARIABLES
    pc,             \* position of the process in main(); "idle" before the first run
    run,            \* number of runs started
    upstream,       \* the upstream's listing items of the scraped host during the
                    \* run, kept after a completed run to tell a re-run
    ids_file,       \* PROCESSED_IDS_FILE: its lines, in order
    csv_file,       \* CSV_FILE: whether it exists, and its rows under the header
    host_url,       \* main: host_url
    host_id,        \* main: host_id
    API_KEY,        \* global API_KEY: "None", "" or "key"
    processed_ids,  \* main: processed_ids
    host_cache,     \* main: host_cache
    room_ids,       \* main: room_ids
    remaining,      \* main: remaining
    records,        \* main: records
    idx,            \* main: idx, the position in remaining (from 1)
    attempt,        \* wrapper: attempt
    details,        \* main: details
    \* history of the current run (what an observer of the process has seen)
    n_acquire,      \* calls of pyairbnb.get_api_key
    n_cred,         \* calls of get_api_credentials
    n_enum,         \* calls of pyairbnb.get_listings_from_user by get_room_ids_from_host
    n_detail,       \* calls of pyairbnb.get_details for remaining[idx]
    n_fail,         \* how many of them raised
    raised,         \* the call whose error left get_listing_details (0: none)
    returned,       \* the payload the last call of pyairbnb.get_details returned
    skipped,        \* identifiers whose detail fetch raised out of the wrapper or
                    \* returned no details
    n_host,         \* calls of pyairbnb.get_host_details, per host identifier
    n_user,         \* calls of pyairbnb.get_listings_from_user by
                    \* fetch_host_profile_fields, per host identifier
    user_items,     \* what that call returned: the number of items (0: None or
                    \* an empty list), -1 when it raised
    failed,         \* identifiers whose extract_listing_data raised
    delayed,        \* line 332 was reached in the iteration for remaining[idx]
    backoff,        \* the wait_time of each time.sleep of the wrapper in the
                    \* current call of get_listing_details, in order
    log0,           \* number of lines of ids_file when the run started
    rerun,          \* the run follows a completed run, the upstream unchanged between
    \* history across runs
    last,           \* how the previous process ended: "none", "aborted", "crashed",
                    \* "killed" or "done"
    emitted         \* identifiers of the rows some run's final write_csv wrote

vars == <<pc, run, upstream, ids_file, csv_file, host_url, host_id, API_KEY,
          processed_ids, host_cache, room_ids, remaining, records, idx, attempt,
          details, n_acquire, n_cred, n_enum, n_detail, n_fail, raised, returned,
          skipped, n_host, n_user, user_items, failed, delayed, backoff, log0,
          rerun, last, emitted>>

persistent == <<upstream, ids_file, csv_file, last, emitted>>
memory == <<host_url, host_id, API_KEY, processed_ids, host_cache, room_ids,
            remaining, records, idx, attempt, details>>
history == <<n_acquire, n_cred, n_enum, n_detail, n_fail, raised, returned,
             skipped, n_host, n_user, user_items, log0, rerun>>
suspensions == <<delayed, backoff>>

Ended == {"aborted", "crashed", "done"}
Running == {"write_empty", "load", "enumerate", "filter", "loop", "fetch",
            "extract", "save", "sleep", "finalize"}

NoCalls == [h \in HostIds |-> 0]

\* no run started yet, nothing on disk, the module just loaded
InitOther ==
    /\ run = 0
    /\ upstream = <<>>
    /\ ids_file = <<>>
    /\ csv_file = [exists |-> FALSE, rows |-> <<>>]
    /\ host_id = <<>>
    /\ API_KEY = "None"
    /\ processed_ids = {}
    /\ host_cache = <<>>
    /\ room_ids = <<>>
    /\ remaining = <<>>
    /\ records = <<>>
    /\ idx = 0
    /\ attempt = 0
    /\ details = NoDetails
    /\ n_acquire = 0
    /\ n_cred = 0
    /\ n_enum = 0
    /\ n_detail = 0
    /\ n_fail = 0
    /\ raised = 0
    /\ returned = NoDetails
    /\ skipped = {}
    /\ n_host = NoCalls
    /\ n_user = NoCalls
    /\ user_items = NoCalls
    /\ failed = {}
    /\ delayed = FALSE
    /\ backoff = <<>>
    /\ log0 = 0
    /\ rerun = FALSE
    /\ last = "none"
    /\ emitted = {}

Init ==
    /\ pc = "idle"
    /\ host_url = <<>>
    /\ InitOther

\* a fresh process: module globals and main's locals before main runs
FreshMemory ==
    /\ API_KEY' = "None"
    /\ processed_ids' = {}
    /\ host_cache' = <<>>
    /\ room_ids' = <<>>
    /\ remaining' = <<>>
    /\ records' = <<>>
    /\ idx' = 0
    /\ attempt' = 0
    /\ details' = NoDetails

FreshHistory ==
    /\ n_acquire' = 0
    /\ n_cred' = 0
    /\ n_enum' = 0
    /\ n_detail' = 0
    /\ n_fail' = 0
    /\ raised' = 0
    /\ returned' = NoDetails
    /\ skipped' = {}
    /\ n_host' = NoCalls
    /\ n_user' = NoCalls
    /\ user_items' = NoCalls
    /\ failed' = {}
    /\ delayed' = FALSE
    /\ backoff' = <<>>


\* ---------------------------------------------------------------- helpers
load_nothing == {}

\* load_processed_ids: the set of the non-blank lines, stripped
load_processed_ids == {ids_file[i] : i \in DOMAIN ids_file}

\* get_room_ids_from_host line 275: the third operand of the or chain is
\* evaluated when the first two are falsy, and .get of None or of a value that
\* is no mapping raises AttributeError
item_raises(it) ==
    /\ it.kind = "dict"
    /\ it.room_id = 0 /\ it.id = 0
    /\ it.listing \in {"null", "nodict"}

\* get_room_ids_from_host lines 274-281: the identifier an item yields (as the
\* number its string denotes), 0 when it yields none
item_rid(it) ==
    IF it.kind = "dict"
    THEN IF it.room_id # 0 THEN it.room_id
         ELSE IF it.id # 0 THEN it.id
         ELSE IF it.listing = "dict" THEN it.lid
         ELSE 0
    ELSE LET s == strip(it.text)
             denoted == {i \in RoomIds : str(i) = s}
         IN  IF s # <<>> /\ IsDigits(s) /\ denoted # {}
             THEN CHOOSE i \in denoted : TRUE
             ELSE 0

\* get_room_ids_from_host lines 272-281: the list room_ids before line 284
RECURSIVE collect(_)
collect(items) ==
    IF items = <<>> THEN <<>>
    ELSE LET rid == item_rid(Head(items))
         IN  (IF rid # 0 THEN <<rid>> ELSE <<>>) \o collect(Tail(items))

\* an error leaves the for loop of line 273
collect_raises(items) == \E i \in DOMAIN items : item_raises(items[i])

RECURSIVE dedupe_keep_last(_)
dedupe_keep_last(s) ==
    IF s = <<>> THEN <<>>
    ELSE IF Head(s) \in Range(Tail(s)) THEN dedupe_keep_last(Tail(s))
    ELSE <<Head(s)>> \o dedupe_keep_last(Tail(s))

dedupe_none(s) == s

\* list(dict.fromkeys(room_ids)): each identifier once, at its first position
RECURSIVE dedupe(_)
dedupe(s) ==
    IF s = <<>> THEN <<>>
    ELSE LET front == dedupe(SubSeq(s, 1, Len(s) - 1))
             x == s[Len(s)]
         IN  IF x \in Range(front) THEN front ELSE Append(front, x)

remaining_unfiltered(ids, processed) == ids

\* [rid for rid in room_ids if rid not in processed_ids]
RECURSIVE remaining_of(_, _)
remaining_of(ids, processed) ==
    IF ids = <<>> THEN <<>>
    ELSE IF Head(ids) \in processed THEN remaining_of(Tail(ids), processed)
    ELSE <<Head(ids)>> \o remaining_of(Tail(ids), processed)

is_final_attempt_never(a) == a = max_retries

\* wrapper: attempt == max_retries - 1
is_final_attempt(a) == a = max_retries - 1

wait_time_constant(a) == delay

\* wrapper line 40: wait_time = delay * (2 ** attempt)
wait_time(a) == delay * (2 ^ a)

after_body_success_only(how) == IF how = "saved" THEN "sleep" ELSE "loop"

\* main lines 319-332: where the body of the for loop goes on after the try
\* statement. "continue" (line 323) goes to the next identifier; the end of
\* the try block ("saved") and the except clause ("except") both fall through
\* to line 332
after_body(how) == IF how = "continue" THEN "loop" ELSE "sleep"

append_csv(recs) == [exists |-> TRUE, rows |-> csv_file.rows \o recs]

\* write_csv: the file is opened with mode "w"; header, then one row a record
write_csv(recs) == [exists |-> TRUE, rows |-> recs]

next_idx_skip(i) == i + 2

\* main line 317: enumerate(remaining, start=1) gives the next position
next_idx(i) == i + 1

details_missing_never(d) == FALSE

\* main: not details
details_missing(d) == d.kind = "empty"

\* get_api_credentials: API_KEY is None
needs_acquire(key) == key = "None"

acquired_or_none(out) == IF out = "ok" THEN "key" ELSE "None"

\* get_api_credentials: API_KEY after the call of pyairbnb.get_api_key
acquired(out) == IF out = "ok" THEN "key" ELSE ""

credentials_after(key, out) == IF needs_acquire(key) THEN acquired(out) ELSE key

\* fetch_host_profile_fields: the profile of the empty host identifier
EmptyProfile == [host_name |-> "", host_rating |-> "", host_total_listings |-> 0]

\* fetch_host_profile_fields lines 158-197: line 194 is inside the try of line
\* 158, so pyairbnb.get_listings_from_user is called only when neither
\* get_host_details nor the reading of its payload raised
user_listings_called(hd) == hd \in {"ok", "errors"}

\* fetch_host_profile_fields on a cache miss: the fields computed from the
\* outcome hd of get_host_details and the outcome ul of get_listings_from_user
\* (which is called only when reading the host details did not raise)
profile_of(hd, ul) ==
    [host_name |-> IF hd = "ok" THEN "name" ELSE "",
     host_rating |-> IF hd \in {"ok", "malformed"} THEN "rating" ELSE "",
     host_total_listings |->
        IF user_listings_called(hd) /\ ul > 0 THEN ul ELSE 0]

cache_store_on_success(cache, h, hd, p) ==
    IF hd = "ok" THEN (h :> p) @@ cache ELSE cache

\* fetch_host_profile_fields: host_cache[host_id] = {...}
cache_store(cache, h, hd, p) == (h :> p) @@ cache

\* extract_listing_data: the record of a listing
record_of(room_id, h, fields) ==
    [room_id |-> room_id, host_id |-> h, host_fields |-> fields]

RecordIds(recs) == {recs[i].room_id : i \in DOMAIN recs}

\* ---------------------------------------------------------------- actions
\* a process starts main(): lines 288-302
StartRunOf(Urls, Ups, runs) ==
    /\ pc = "idle"
    /\ run < runs
    /\ \E url \in Urls :
         /\ host_url' = strip(url)
         /\ host_id' = IF host_url' = <<>> THEN <<>>
                       ELSE parse_host_id_from_url(host_url')
    /\ pc' = IF host_id' = <<>> THEN "aborted" ELSE "write_empty"
    /\ run' = run + 1
    /\ FreshMemory
    /\ FreshHistory
    /\ log0' = Len(ids_file)
    /\ \E u \in Ups :
         /\ upstream' = u
         /\ rerun' = (last = "done" /\ u = upstream)
    /\ UNCHANGED <<ids_file, csv_file, last, emitted>>

\* main line 305: write_csv([])
WriteEmpty ==
    /\ pc = "write_empty"
    /\ csv_file' = write_csv(<<>>)
    /\ pc' = "load"
    /\ UNCHANGED <<run, upstream, ids_file, last, emitted, memory, history,
                   failed, suspensions>>

\* main lines 307-308
Load ==
    /\ pc = "load"
    /\ processed_ids' = load_processed_ids
    /\ host_cache' = <<>>
    /\ pc' = "enumerate"
    /\ UNCHANGED <<run, persistent, host_url, host_id, API_KEY, room_ids,
                   remaining, records, idx, attempt, details, history, failed,
                   suspensions>>

\* main line 310: get_room_ids_from_host(host_id)
EnumerateOf(Outs) ==
    /\ pc = "enumerate"
    /\ \E acq \in AcquireOutcomes, out \in Outs :
         /\ acq = "raise" => needs_acquire(API_KEY)
         /\ API_KEY' = credentials_after(API_KEY, acq)
         /\ n_acquire' = IF needs_acquire(API_KEY) THEN n_acquire + 1 ELSE n_acquire
         /\ LET listings == IF out = "list" THEN upstream ELSE <<>> IN
            IF out = "raise" \/ collect_raises(listings)
            THEN /\ pc' = "crashed"
                 /\ UNCHANGED room_ids
            ELSE /\ pc' = "filter"
                 /\ room_ids' = dedupe(collect(listings))
    /\ n_cred' = n_cred + 1
    /\ n_enum' = n_enum + 1
    /\ UNCHANGED <<run, persistent, host_url, host_id, processed_ids, host_cache,
                   remaining, records, idx, attempt, details, n_detail, n_fail,
                   raised, returned, skipped, n_host, n_user, user_items, log0,
                   rerun, failed, suspensions>>

\* main lines 313-316
Filter ==
    /\ pc = "filter"
    /\ remaining' = remaining_of(room_ids, processed_ids)
    /\ records' = <<>>
    /\ idx' = 0
    /\ pc' = "loop"
    /\ UNCHANGED <<run, persistent, host_url, host_id, API_KEY, processed_ids,
                   host_cache, room_ids, attempt, details, history, failed,
                   suspensions>>

\* main line 317: the for loop takes the next identifier, or ends
NextListing ==
    /\ pc = "loop"
    /\ IF idx < Len(remaining)
       THEN /\ idx' = next_idx(idx)
            /\ pc' = "fetch"
       ELSE /\ pc' = "finalize"
            /\ UNCHANGED idx
    /\ attempt' = 0
    /\ n_detail' = 0
    /\ n_fail' = 0
    /\ raised' = 0
    /\ returned' = NoDetails
    /\ delayed' = FALSE
    /\ backoff' = <<>>
    /\ UNCHANGED <<run, persistent, host_url, host_id, API_KEY, processed_ids,
                   host_cache, room_ids, remaining, records, details,
                   n_acquire, n_cred, n_enum, skipped, n_host, n_user,
                   user_items, log0, rerun, failed>>

\* main lines 320-323 with wrapper lines 34-42: one call of pyairbnb.get_details
\* for remaining[idx], and what the wrapper and main do with its outcome
FetchReturnsOf(Payloads) ==
    /\ pc = "fetch"
    /\ \E p \in Payloads :
         /\ details' = p
         /\ returned' = p
         /\ pc' = IF details_missing(p) THEN after_body("continue") ELSE "extract"
         /\ skipped' = IF p = NoDetails THEN skipped \cup {remaining[idx]}
                        ELSE skipped
    /\ n_detail' = n_detail + 1
    /\ UNCHANGED <<run, persistent, host_url, host_id, API_KEY, processed_ids,
                   host_cache, room_ids, remaining, records, idx, attempt,
                   n_acquire, n_cred, n_enum, n_fail, raised, n_host, n_user,
                   user_items, log0, rerun, failed, suspensions>>

FetchRaises ==
    /\ pc = "fetch"
    /\ n_detail' = n_detail + 1
    /\ n_fail' = n_fail + 1
    /\ IF is_final_attempt(attempt)
       THEN \* raise: the error reaches main's except clause, then line 332
            /\ raised' = n_detail + 1
            /\ skipped' = skipped \cup {remaining[idx]}
            /\ pc' = after_body("except")
            /\ UNCHANGED <<attempt, details, backoff>>
       ELSE \* time.sleep(wait_time), then the next attempt of range(max_retries);
            \* when the range is used up the wrapper returns None
            /\ attempt' = attempt + 1
            /\ backoff' = Append(backoff, wait_time(attempt))
            /\ UNCHANGED raised
            /\ IF attempt + 1 < max_retries
               THEN pc' = "fetch" /\ UNCHANGED <<details, skipped>>
               ELSE /\ pc' = "loop"
                    /\ details' = NoDetails
                    /\ skipped' = skipped \cup {remaining[idx]}
    /\ UNCHANGED <<run, persistent, host_url, host_id, API_KEY, processed_ids,
                   host_cache, room_ids, remaining, records, idx,
                   n_acquire, n_cred, n_enum, returned, n_host, n_user,
                   user_items, log0, rerun, failed, delayed>>


\* main lines 325-326: extract_listing_data (with fetch_host_profile_fields)
\* and records.append
ExtractOf(Hd, Ul) ==
    /\ pc = "extract"
    /\ IF details.kind = "nondict"
       THEN \* details.get raises; main's except clause, then line 332
            /\ pc' = after_body("except")
            /\ failed' = failed \cup {remaining[idx]}
            /\ UNCHANGED <<API_KEY, host_cache, records, n_acquire, n_cred, n_host,
                           n_user, user_items>>
       ELSE LET h == details.host IN
            /\ pc' = "save"
            /\ UNCHANGED failed
            /\ IF h = ""
               THEN /\ records' = Append(records,
                                         record_of(remaining[idx], h, EmptyProfile))
                    /\ UNCHANGED <<API_KEY, host_cache, n_acquire, n_cred, n_host, n_user,
                             user_items>>
               ELSE IF h \in DOMAIN host_cache
               THEN /\ records' = Append(records,
                                         record_of(remaining[idx], h, host_cache[h]))
                    /\ UNCHANGED <<API_KEY, host_cache, n_acquire, n_cred, n_host, n_user,
                             user_items>>
               ELSE \E acq \in AcquireOutcomes, hd \in Hd :
                    \E ul \in IF user_listings_called(hd) THEN Ul ELSE {0} :
                    /\ acq = "raise" => needs_acquire(API_KEY)
                    /\ API_KEY' = credentials_after(API_KEY, acq)
                    /\ n_acquire' =
                          IF needs_acquire(API_KEY) THEN n_acquire + 1 ELSE n_acquire
                    /\ n_cred' = n_cred + 1
                    /\ n_host' = [n_host EXCEPT ![h] = @ + 1]
                    /\ n_user' = IF user_listings_called(hd)
                                 THEN [n_user EXCEPT ![h] = @ + 1] ELSE n_user
                    /\ user_items' = IF user_listings_called(hd)
                                     THEN [user_items EXCEPT ![h] = ul]
                                     ELSE user_items
                    /\ host_cache' = cache_store(host_cache, h, hd, profile_of(hd, ul))
                    /\ records' = Append(records,
                                         record_of(remaining[idx], h, profile_of(hd, ul)))
    /\ UNCHANGED <<run, persistent, host_url, host_id, processed_ids, room_ids,
                   remaining, idx, attempt, details, n_enum, n_detail, n_fail,
                   raised, returned, skipped, log0, rerun, suspensions>>

\* main line 327: save_processed_id(room_id); an error of open or write
\* reaches main's except clause
SaveOf(Oks) ==
    /\ pc = "save"
    /\ \E ok \in Oks :
         /\ ids_file' = IF ok THEN Append(ids_file, remaining[idx]) ELSE ids_file
         /\ pc' = after_body(IF ok THEN "saved" ELSE "except")
    /\ UNCHANGED <<run, upstream, csv_file, last, emitted, memory, history,
                   failed, suspensions>>

\* main line 332: time.sleep(DELAY_BETWEEN_DETAILS)
Sleep ==
    /\ pc = "sleep"
    /\ delayed' = TRUE
    /\ pc' = "loop"
    /\ UNCHANGED <<run, persistent, memory, history, failed, backoff>>

\* main line 334: write_csv(records)
Finalize ==
    /\ pc = "finalize"
    /\ csv_file' = write_csv(records)
    /\ emitted' = emitted \cup RecordIds(records)
    /\ pc' = "done"
    /\ UNCHANGED <<run, upstream, ids_file, last, memory, history, failed,
                   suspensions>>

\* the process is killed while main runs: its memory is gone, the files stay
Kill ==
    /\ pc \in Running
    /\ pc' = "idle"
    /\ last' = "killed"
    /\ host_url' = <<>>
    /\ host_id' = <<>>
    /\ FreshMemory
    /\ FreshHistory
    /\ log0' = Len(ids_file)
    /\ rerun' = FALSE
    /\ upstream' = <<>>
    /\ UNCHANGED <<run, ids_file, csv_file, emitted>>

\* main returns (lines 291, 296, 335) or an error leaves it: the process ends
Exit ==
    /\ pc \in Ended
    /\ pc' = "idle"
    /\ last' = pc
    /\ host_url' = <<>>
    /\ host_id' = <<>>
    /\ FreshMemory
    /\ FreshHistory
    /\ log0' = Len(ids_file)
    /\ rerun' = FALSE
    /\ upstream' = IF pc = "done" THEN upstream ELSE <<>>
    /\ UNCHANGED <<run, ids_file, csv_file, emitted>>

StartRun == StartRunOf(HostUrlInputs, UpstreamListings, MaxRuns)
Enumerate == EnumerateOf(EnumOutcomes)
FetchReturns == FetchReturnsOf(PipelinePayloads)
Extract == ExtractOf(PipelineHostDetail, PipelineHostListings)
Save == SaveOf(BOOLEAN)

Next ==
    \/ StartRun
    \/ WriteEmpty
    \/ Load
    \/ Enumerate
    \/ Filter
    \/ NextListing
    \/ FetchReturns
    \/ FetchRaises
    \/ Extract
    \/ Save
    \/ Sleep
    \/ Finalize
    \/ Kill
    \/ Exit

\* the pipeline: runs of main() one after the other, each of which may be killed
Spec == Init /\ [][Next]_vars

StartRunHosts == StartRunOf(HostsUrlInputs, HostsUpstream, 1)
EnumerateHosts == EnumerateOf({"list"})
FetchReturnsHosts == FetchReturnsOf(HostsPayloads)
ExtractHosts == ExtractOf(HostDetailOutcomes, HostListingsOutcomes)
SaveHosts == SaveOf({TRUE})

NextHosts ==
    \/ StartRunHosts
    \/ WriteEmpty
    \/ Load
    \/ EnumerateHosts
    \/ Filter
    \/ NextListing
    \/ FetchReturnsHosts
    \/ ExtractHosts
    \/ SaveHosts
    \/ Sleep
    \/ Finalize

\* one run of main() over every host and every outcome of the host calls
SpecHosts == Init /\ [][NextHosts]_vars

StartRunRerun == StartRunOf(HostsUrlInputs, UpstreamListings, MaxRuns)
FetchReturnsRerun == FetchReturnsOf(RerunPayloads)

NextRerun ==
    \/ StartRunRerun
    \/ WriteEmpty
    \/ Load
    \/ EnumerateHosts
    \/ Filter
    \/ NextListing
    \/ FetchReturnsRerun
    \/ FetchRaises
    \/ Extract
    \/ SaveHosts
    \/ Sleep
    \/ Finalize
    \/ Exit

\* complete runs of main() one after the other over an upstream whose data
\* are well formed: a call returns the data or raises, every write succeeds
SpecRerun == Init /\ [][NextRerun]_vars

\* a call of parse_host_id_from_url(host_url) on its own
InitParse ==
    /\ pc = "resolve"
    /\ host_url \in HostReferences
    /\ InitOther

Resolve ==
    /\ pc = "resolve"
    /\ host_id' = parse_host_id_from_url(host_url)
    /\ pc' = "resolved"
    /\ UNCHANGED <<run, persistent, host_url, API_KEY, processed_ids, host_cache,
                   room_ids, remaining, records, idx, attempt, details, history,
                   failed, suspensions>>

NextParse == Resolve

\* the resolver applied to every host reference of HostReferences
SpecParse == InitParse /\ [][NextParse]_vars

StartRunLive == StartRunOf(HostUrlInputs, UpstreamListings, 1)

NextLive ==
    \/ StartRunLive
    \/ WriteEmpty
    \/ Load
    \/ Enumerate
    \/ Filter
    \/ NextListing
    \/ FetchReturns
    \/ FetchRaises
    \/ Extract
    \/ Save
    \/ Sleep
    \/ Finalize

\* one run of main() that is not killed and in which every external call and
\* every time.sleep returns or raises: the process always takes its next step
SpecLive == Init /\ [][NextLive]_vars /\ WF_vars(NextLive)

StartRunEnum == StartRunOf(HostsUrlInputs, EnumListings, 1)

NextEnum ==
    \/ StartRunEnum
    \/ WriteEmpty
    \/ Load
    \/ EnumerateHosts
    \/ Filter

\* one run of main() up to its loop, over every shape of the enumerated items
SpecEnum == Init /\ [][NextEnum]_vars

\* ------------------------------------------------------------- properties
InLoop == {"loop", "fetch", "extract", "save", "sleep", "finalize", "done"}

\* the identifiers in the progress log when the run started
LoggedAtStart == {ids_file[i] : i \in 1..log0}

\* the identifiers the run has appended to the progress log
Appended == {ids_file[i] : i \in (log0 + 1)..Len(ids_file)}

\* C1: failure isolation. An identifier whose detail fetch raised out of the
\* wrapper or returned no details has no record in the accumulator, no row in
\* the table the run writes and no line appended to the progress log; the run
\* is still in its loop (or past it), at the failed identifier's position only
\* on the way to the next one.
C1_FailureIsolation ==
    \A id \in skipped :
        /\ id \notin RecordIds(records)
        /\ id \notin Appended
        /\ pc = "done" => id \notin RecordIds(csv_file.rows)
        /\ pc \in InLoop
        /\ \E j \in 1..idx :
              /\ remaining[j] = id
              /\ j = idx => pc \in {"sleep", "loop", "finalize", "done"}

\* a completed run that skipped one listing and wrote the row of a later one
C1_Witness ==
    /\ pc = "done"
    /\ \E j, k \in DOMAIN remaining :
          /\ j < k
          /\ remaining[j] \in skipped
          /\ remaining[k] \in RecordIds(csv_file.rows)

\* C2: every identifier load_processed_ids returned at the start of the run
\* (the lines of the log at that time) is excluded from the remaining list: the
\* run performs no detail fetch for it and emits no record for it.
C2_ProcessedExcluded ==
    pc \in {"enumerate", "filter"} \cup InLoop =>
        /\ processed_ids = LoggedAtStart
        /\ \A id \in processed_ids :
              /\ id \notin Range(remaining)
              /\ id \notin RecordIds(records)
              /\ id \notin skipped
              /\ ~(pc \in {"fetch", "extract", "save", "sleep"} /\ remaining[idx] = id)
              /\ pc = "done" => id \notin RecordIds(csv_file.rows)

\* a later run that enumerates a recorded identifier and completes with a row
\* for another one
C2_Witness ==
    /\ run = 2
    /\ pc = "done"
    /\ \E id \in processed_ids : id \in Range(room_ids)
    /\ csv_file.rows # <<>>

\* C3 as stated: the second of two complete runs over an unchanged upstream
\* processes no listing, writes no row and leaves the progress log unchanged.
C3_Idempotent ==
    (rerun /\ pc = "done") =>
        /\ records = <<>>
        /\ csv_file.rows = <<>>
        /\ Len(ids_file) = log0

\* C3 amended: the second of two complete runs over an unchanged upstream
\* fetches and emits nothing for the identifiers in the progress log; when the
\* log holds every enumerated identifier it fetches no listing, writes no row
\* and leaves the log unchanged.
C3_IdempotentRecorded ==
    (rerun /\ pc \in InLoop) =>
        /\ \A id \in LoggedAtStart :
              id \notin Range(remaining) /\ id \notin RecordIds(records)
        /\ Range(room_ids) \subseteq LoggedAtStart =>
              /\ remaining = <<>>
              /\ records = <<>>
              /\ n_detail = 0
              /\ Len(ids_file) = log0
              /\ pc = "done" => csv_file.rows = <<>>

\* a second complete run over the same, non-empty enumeration, all recorded
C3_Witness ==
    /\ rerun
    /\ pc = "done"
    /\ room_ids # <<>>
    /\ Range(room_ids) \subseteq LoggedAtStart

\* C4: crash consistency of the progress log. In every state of the loop (a
\* kill may come at any of them): the remaining list holds exactly the
\* enumerated identifiers that were not in the log when the run started; an
\* identifier whose save_processed_id has not run yet (it is ahead in the
\* list, or being fetched, extracted or about to be saved) is not in the log;
\* and what the run appended to the log are identifiers it has reached and
\* holds a record of.  So a detail fetch never starts for a logged identifier.
C4_CrashConsistency ==
    pc \in InLoop =>
        /\ Range(remaining) = Range(room_ids) \ LoggedAtStart
        /\ \A j \in DOMAIN remaining :
              (j > idx \/ (j = idx /\ pc \in {"fetch", "extract", "save"}))
                  => remaining[j] \notin Range(ids_file)
        /\ Appended \subseteq {remaining[j] : j \in 1..idx} \cap RecordIds(records)

\* the run after a run that was killed after a save: it enumerates the saved
\* identifier and is fetching another one
C4_Witness ==
    /\ last = "killed"
    /\ log0 >= 1
    /\ ids_file[1] \in Range(room_ids)
    /\ pc = "fetch"
    /\ n_detail >= 1

\* C5 as stated: after a complete run, every identifier in the progress log
\* (that the upstream still lists) has had its record written to the output
\* table by some run.
C5_LoggedWereEmitted ==
    pc = "done" => (Range(ids_file) \cap Range(room_ids)) \subseteq emitted

\* C6: the retry wrapper with max_retries = 3. While it retries, every call so
\* far raised; when it has returned, the call was made once more than it
\* raised (after 0, 1 or 2 failures) and main holds the value that call
\* returned; when an error left it, the call was made 3 times, all raised, and
\* the error is that of the third call.
C6_RetryAttempts ==
    /\ n_detail <= 3
    /\ pc = "fetch" =>
          n_detail = n_fail /\ attempt = n_fail /\ n_fail <= 2 /\ raised = 0
    /\ (pc \in {"extract", "save", "sleep", "loop"} /\ n_detail > 0) =>
          IF raised = 0
          THEN n_detail = n_fail + 1 /\ n_fail \in 0..2 /\ details = returned
          ELSE n_detail = 3 /\ n_fail = 3 /\ raised = 3

\* two failures, then the third call returns details
C6_Witness ==
    /\ pc = "extract"
    /\ n_fail = 2
    /\ n_detail = 3
    /\ details.kind = "dict"

\* C7 as stated: an aborted run leaves a header-only output table, has made no
\* network call and has not changed the progress log.
C7_AbortedEmitsEmptyTable ==
    pc = "aborted" =>
        /\ csv_file.exists
        /\ csv_file.rows = <<>>
        /\ n_acquire = 0 /\ n_enum = 0 /\ n_detail = 0
        /\ \A h \in HostIds : n_host[h] = 0
        /\ Len(ids_file) = log0

\* C8 as stated: no failure of an external call ends a run whose host
\* reference resolved before it writes the output table.
C8_NoCrash == pc # "crashed"

\* C9: in one run pyairbnb.get_host_details is called at most once for each
\* host identifier, and never for the empty one; a host is in the cache exactly
\* when it was called for it, whatever the call's outcome.
C9_HostFetchedOnce ==
    /\ n_host[""] = 0
    /\ \A h \in HostIds :
          /\ n_host[h] <= 1
          /\ h \in DOMAIN host_cache <=> n_host[h] = 1
    /\ \A i \in DOMAIN records :
          records[i].host_id \in DOMAIN host_cache =>
              records[i].host_fields = host_cache[records[i].host_id]

\* two listings of one host whose host-detail call failed: one call, the
\* default profile in both records
C9_Witness ==
    /\ Len(records) >= 2
    /\ records[1].host_id = "h1"
    /\ records[2].host_id = "h1"
    /\ records[2].host_fields = EmptyProfile
    /\ n_host["h1"] = 1

\* C10: pyairbnb.get_api_key is called at most once per process, by the first
\* call of get_api_credentials; from then on API_KEY is a key or the empty
\* string, never None again.
C10_AcquireOnce ==
    /\ n_acquire <= 1
    /\ n_cred = 0 => n_acquire = 0 /\ API_KEY = "None"
    /\ n_cred >= 1 => n_acquire = 1 /\ API_KEY \in {"", "key"}

\* the acquisition failed, get_api_credentials was called again, and the run
\* completed with a row
C10_Witness ==
    /\ API_KEY = ""
    /\ n_cred >= 2
    /\ pc = "done"
    /\ csv_file.rows # <<>>

\* C11 as stated: for every host in the cache (a non-empty identifier, stored
\* on a miss) get_listings_from_user was called for it, and the cached
\* host_total_listings is the number of items that call returned (0 when it
\* raised or returned nothing), whatever get_host_details did.
C11_TotalListings ==
    \A h \in DOMAIN host_cache :
        /\ n_user[h] = 1
        /\ host_cache[h].host_total_listings =
              (IF user_items[h] > 0 THEN user_items[h] ELSE 0)

\* the position of the first occurrence of x in s
FirstAt(s, x) == CHOOSE i \in DOMAIN s : s[i] = x /\ \A j \in 1..(i - 1) : s[j] # x

\* C12: enumeration deduplicates preserving first-seen order. What
\* get_room_ids_from_host returns holds every extracted identifier, each
\* exactly once, ordered by first occurrence among the extracted identifiers.
C12_DedupeFirstSeen ==
    pc \in {"filter", "loop"} =>
        LET e == collect(upstream) IN
        /\ Range(room_ids) = Range(e)
        /\ \A i, j \in DOMAIN room_ids : i # j => room_ids[i] # room_ids[j]
        /\ \A i, j \in DOMAIN room_ids :
              i < j => FirstAt(e, room_ids[i]) < FirstAt(e, room_ids[j])

\* the enumeration a, b, a returned as a, b
C12_Witness ==
    /\ pc = "filter"
    /\ Len(upstream) = 3
    /\ Len(room_ids) = 2
    /\ collect(upstream) = <<room_ids[1], room_ids[2], room_ids[1]>>

\* C13 as stated: the resolver returns the empty result or a non-empty string
\* of decimal digits whose length is between 5 and 25.
C13_HostIdLength ==
    pc = "resolved" =>
        \/ host_id = <<>>
        \/ /\ IsDigits(host_id)
           /\ Len(host_id) >= MinIdLen /\ Len(host_id) <= MaxIdLen

\* C13 amended: the resolver returns the empty result or a non-empty string of
\* decimal digits; the length is between 5 and 25 when the input is a raw
\* number, and any positive length when the digits come from a URL.
C13_HostIdDigits ==
    pc = "resolved" =>
        \/ host_id = <<>>
        \/ /\ host_id # <<>>
           /\ IsDigits(host_id)
           /\ IsDigits(strip(host_url)) =>
                 Len(host_id) >= MinIdLen /\ Len(host_id) <= MaxIdLen

\* a /users/show/ URL resolved to fewer than 5 digits
C13_Witness ==
    /\ pc = "resolved"
    /\ host_id # <<>>
    /\ Len(host_id) < MinIdLen
    /\ "show" \in Range(host_url)

\* C14: the resolver's result by the shape of its input. A reference that,
\* trimmed, is 5 to 25 decimal digits resolves to these digits; else one whose
\* path holds /users/show/ or /users/profile/ followed by digits resolves to
\* the whole digit run after the first such place; every other reference
\* (a rejected URL included) resolves to the empty result.
C14_ResolvedByShape ==
    pc = "resolved" =>
        LET s == strip(host_url)
            path == urlparse_path(s)
            places == {i \in DOMAIN path :
                         /\ i >= 5
                         /\ SubSeq(path, i - 4, i) \in
                               {<<"/", "users", "/", "show", "/">>,
                                <<"/", "users", "/", "profile", "/">>}
                         /\ i < Len(path)
                         /\ path[i + 1] \in Digits}
        IN  IF IsDigits(s) /\ Len(s) \in MinIdLen..MaxIdLen
            THEN host_id = s
            ELSE IF ~urlparse_raises(s) /\ places # {}
            THEN \E i \in places :
                    /\ \A j \in places : i <= j
                    /\ host_id # <<>>
                    /\ host_id = SubSeq(path, i + 1, i + Len(host_id))
                    /\ IsDigits(host_id)
                    /\ i + Len(host_id) < Len(path) =>
                          path[i + Len(host_id) + 1] \notin Digits
            ELSE host_id = <<>>

\* a padded /users/profile/ URL with a query resolved to its digits
C14_Witness ==
    /\ pc = "resolved"
    /\ host_url # <<>>
    /\ Head(host_url) = " "
    /\ "profile" \in Range(host_url)
    /\ "?" \in Range(host_url)
    /\ Len(host_id) = 3

\* C15 as stated: every item yields its room_id if present, else its id, else
\* its listing's id; an item that yields none (its listing absent, null or no
\* mapping included) is skipped without an error, and the enumeration returns
\* the identifiers of the other items.
C15_ExtractionSkips ==
    pc \in {"filter", "loop", "crashed"} =>
        /\ pc # "crashed"
        /\ Range(room_ids) =
              {item_rid(upstream[i]) : i \in DOMAIN upstream} \ {0}

\* the last call of pyairbnb.get_details for remaining[idx] returned None or
\* an empty payload
ReturnedEmpty == raised = 0 /\ n_detail = n_fail + 1 /\ returned = NoDetails

\* the iteration for remaining[idx] is over and the next has not begun
AfterIteration == pc = "loop" /\ idx >= 1

NoNetworkCall ==
    /\ n_acquire = 0 /\ n_enum = 0 /\ n_detail = 0
    /\ \A h \in HostIds : n_host[h] = 0 /\ n_user[h] = 0

\* C17: the output table in a run whose host resolves. It is written empty
\* before any network call, stays empty until the final write, and then holds
\* exactly the accumulated records: a row for each remaining listing whose
\* detail fetch and extraction succeeded, in enumeration order, no room_id
\* twice.
C17_TableLifecycle ==
    /\ pc = "write_empty" => NoNetworkCall
    /\ pc \in (Running \ {"write_empty"}) \cup {"crashed"} =>
          csv_file = [exists |-> TRUE, rows |-> <<>>]
    /\ pc = "done" =>
          /\ csv_file.exists
          /\ csv_file.rows = records
          /\ \A id \in Range(remaining) :
                id \in RecordIds(csv_file.rows) <=> id \notin skipped \cup failed
          /\ RecordIds(csv_file.rows) \subseteq Range(remaining)
          /\ \A i, j \in DOMAIN csv_file.rows :
                i < j => FirstAt(room_ids, csv_file.rows[i].room_id)
                           < FirstAt(room_ids, csv_file.rows[j].room_id)

\* a later run, after a table with rows was written, completed with one row
\* while the extraction of another listing failed
C17_Witness ==
    /\ pc = "done"
    /\ run >= 2
    /\ emitted # RecordIds(records)
    /\ Len(csv_file.rows) = 1
    /\ failed # {}

\* C18: the backoff schedule of the retry wrapper. The wrapper sleeps after
\* each failed attempt but the final one, delay * 2^a after attempt a (2, then
\* 4), never after an attempt that returned: at most max_retries - 1 sleeps
\* in one wrapped call.
C18_BackoffSchedule ==
    /\ Len(backoff) <= max_retries - 1
    /\ \A k \in DOMAIN backoff : backoff[k] = delay * (2 ^ (k - 1))
    /\ backoff \in {<<>>, <<2>>, <<2, 4>>}
    /\ (pc \in {"fetch", "extract", "save", "sleep"} \/ AfterIteration) =>
          Len(backoff) = IF raised # 0 THEN n_fail - 1 ELSE n_fail

\* three failed attempts: the wrapper slept 2, then 4, and not after the third
C18_Witness ==
    /\ pc = "sleep"
    /\ raised = max_retries
    /\ backoff = <<2, 4>>

\* C19 as stated: at the end of every iteration and at the final write the
\* room_ids of the accumulated records are exactly the identifiers this run
\* appended to the progress log, also when save_processed_id failed.
C19_AccumulatorMatchesLog ==
    pc \in {"loop", "finalize", "done"} => RecordIds(records) = Appended

\* C20: forward progress. A run that is not killed terminates; the positions
\* of the remaining list are visited one after the other, each once, all of
\* them before the final write; and pyairbnb.get_details is called at most
\* max_retries times for one identifier.
C20_ForwardProgress ==
    /\ <>(pc \in Ended)
    /\ [](n_detail <= max_retries)
    /\ [](pc \in {"finalize", "done"} => idx = Len(remaining))
    /\ [][idx' # idx =>
            \/ idx' = 0
            \/ idx' = idx + 1 /\ idx' <= Len(remaining) /\ pc' = "fetch"]_vars
    /\ [][(pc = "fetch" /\ pc' # "fetch") => n_detail' >= 1]_vars

\* a completed run over two remaining identifiers, one of them given up after
\* three calls
C20_Witness ==
    /\ pc = "done"
    /\ Len(remaining) = 2
    /\ idx = 2
    /\ skipped # {}
    /\ Len(records) = 1

====
